---- MODULE Spec2Model ----
(***************************************************************************)
(* Model of code/core/retrieval/search_engine.py: the Retrieval template   *)
(* method get_results and the two back ends, Indri (local index + external *)
(* dumpindex process) and BingWebSearch (search API + page fetches).       *)
(* One retriever instance is constructed (Init) and then called by a       *)
(* single-threaded caller, through get_results or directly through         *)
(* retrieve.  External collaborators (query generation, the index engine,  *)
(* the dump process, the HTTP endpoints) answer nondeterministically.      *)
(***************************************************************************)
EXTENDS Integers, Sequences, FiniteSets, TLC

\* ---------------------------------------------------------------- bounds
MaxRequested == 3      \* largest configured results_requested
MaxHits == 5           \* largest number of webPages.value entries
MaxRanked == 2         \* largest number of (id, score) pairs the engine returns
MaxCalls == 2          \* invocations made by the caller on one instance

\* ------------------------------------------------------- program constants
DefaultResultsRequested == 1
ScoreBase == 10

\* ------------------------------------------------------------ input pools
Absent == "absent"
Backends == {"Indri", "BingWebSearch"}
TextFormats == {"trectext", "trecweb"}
Queries == {"climate policy", "weather"}
Conversations == {<<"m1">>, <<"m2", "m1">>}
DocIds == {3, 12}
Scores == {-2, -5}
Contents == {"<DOC>a</DOC>", "<DOC>b</DOC>"}
Hits == {[url |-> "http://a", name |-> "A", snippet |-> "<b>a</b>"],
         [url |-> "http://b", name |-> "B", snippet |-> "<b>b</b>"]}
PageResponses == {[status |-> "ok", body |-> <<"<p>", "body", "</p>">>],
                  [status |-> "http_error", body |-> <<"<h1>", "error", "</h1>">>]}
Tags == {"<p>", "</p>", "<h1>", "</h1>"}

SeqUpTo(S, n) == UNION {[1..k -> S] : k \in 0..n}

Min(a, b) == IF a < b THEN a ELSE b

VARIABLES
  backend,                  \* which concrete Retrieval class was constructed
  params_results_requested, \* {params['results_requested']}, or {} when the key is absent
  text_format,              \* params['text_format'] (Indri)
  logger,                   \* records emitted on params['logger']
  calls,                    \* invocations started so far
  log_mark,                 \* length of the log when this invocation started
  pc,                       \* source line the call is at
  entry,                    \* "get_results" or "retrieve": the method the caller invoked
  conv_list,                \* argument of get_results
  query,                    \* local 'query'
  events,                   \* calls made by get_results in this invocation, in order
  int_results,              \* Indri.retrieve local
  search_results,           \* BingWebSearch.retrieve local (parsed JSON)
  results,                  \* local 'results' of retrieve
  i,                        \* loop position (zero-based)
  content,                  \* get_doc_from_index local
  doc,                      \* Indri.retrieve local
  response,                 \* BingWebSearch.retrieve local (the search response)
  http,                     \* outbound HTTP requests of this invocation, in issue order
  dump,                     \* ids passed to the dumpindex process in this invocation
  nquery,                   \* index.query calls in this invocation
  rv,                       \* outcome of retrieve
  out                       \* outcome seen by the caller

vars == <<backend, params_results_requested, text_format, logger, calls, log_mark, pc,
          entry, conv_list, query, events, int_results, search_results,
          results, i, content, doc, response, http, dump, nquery, rv, out>>

config == <<backend, params_results_requested, text_format>>
locals == <<int_results, search_results, results, i, content, doc, response>>
effects == <<http, dump, nquery, log_mark>>

\* ----------------------------------------------------------- value types
Running == [status |-> "running", value |-> <<>>, error |-> "none"]
Returned(v) == [status |-> "returned", value |-> v, error |-> "none"]
Raised(e) == [status |-> "raised", value |-> <<>>, error |-> e]

NoDoc == [id |-> <<>>, title |-> "", text |-> <<>>, score |-> 0]
NoJson == [hasWebPages |-> FALSE, value |-> <<>>]
NoResponse == [status |-> "none", json |-> NoJson]

\* Document(id, title, text, score)
Document(id, title, text, score) ==
  [id |-> id, title |-> title, text |-> text, score |-> score]

\* get_trec_doc(content): the parsed document carries the collection's own
\* identifier and no retrieval score
get_trec_doc(c) == [id |-> <<"docno", c>>, title |-> c, text |-> <<c>>, score |-> 0]

\* html_to_clean_text(html): markup removed, text kept
html_to_clean_text(html) == SelectSeq(html, LAMBDA t : t \notin Tags)

\* str(int_doc_id) for a non-negative int: its decimal digits
Digit(d) == CASE d = 0 -> "0" [] d = 1 -> "1" [] d = 2 -> "2" [] d = 3 -> "3"
              [] d = 4 -> "4" [] d = 5 -> "5" [] d = 6 -> "6" [] d = 7 -> "7"
              [] d = 8 -> "8" [] d = 9 -> "9"
RECURSIVE str(_)
str(n) == IF n < 10 THEN <<Digit(n)>> ELSE str(n \div 10) \o <<Digit(n % 10)>>

\* self.results_requested (lines 70 and 131)
results_requested ==
  IF params_results_requested # {}
    THEN CHOOSE n \in params_results_requested : TRUE
    ELSE DefaultResultsRequested

\* 'New query: ' + query
InfoMessage(q) == [level |-> "info", msg |-> <<"New query: ", q>>]
RateLimitWarning ==
  [level |-> "warning",
   msg |-> <<"There is a maximum number of transactions per second for the Bing API.">>]

Init ==
  /\ backend \in Backends
  /\ params_results_requested \in {{}} \cup {{n} : n \in 0..MaxRequested}
  /\ text_format \in (IF backend = "Indri" THEN TextFormats ELSE {Absent})
  /\ logger = IF backend = "BingWebSearch" THEN <<RateLimitWarning>> ELSE <<>>
  /\ calls = 0
  /\ log_mark = Len(logger)
  /\ pc = "idle"
  /\ entry = "none"
  /\ conv_list = <<>>
  /\ query = ""
  /\ events = <<>>
  /\ int_results = <<>>
  /\ search_results = NoJson
  /\ results = <<>>
  /\ i = 0
  /\ content = ""
  /\ doc = NoDoc
  /\ response = NoResponse
  /\ http = <<>>
  /\ dump = <<>>
  /\ nquery = 0
  /\ rv = Running
  /\ out = Running

\* state every invocation starts from
Fresh ==
  /\ log_mark' = Len(logger)
  /\ events' = <<>>
  /\ int_results' = <<>>
  /\ search_results' = NoJson
  /\ results' = <<>>
  /\ i' = 0
  /\ content' = ""
  /\ doc' = NoDoc
  /\ response' = NoResponse
  /\ http' = <<>>
  /\ dump' = <<>>
  /\ nquery' = 0
  /\ rv' = Running
  /\ out' = Running

\* ------------------------------------------------------------- the caller
CallGetResults ==
  /\ pc \in {"idle", "done"}
  /\ calls < MaxCalls
  /\ \E c \in Conversations : conv_list' = c
  /\ calls' = calls + 1
  /\ entry' = "get_results"
  /\ query' = ""
  /\ pc' = "L46"
  /\ Fresh
  /\ UNCHANGED <<config, logger>>

CallRetrieve ==
  /\ pc \in {"idle", "done"}
  /\ calls < MaxCalls
  /\ \E q \in Queries : query' = q
  /\ calls' = calls + 1
  /\ entry' = "retrieve"
  /\ conv_list' = <<>>
  /\ pc' = IF backend = "Indri" THEN "L86" ELSE "L148"
  /\ Fresh
  /\ UNCHANGED <<config, logger>>

\* ------------------------------------------------- Retrieval.get_results
Event(op, q) == [op |-> op, q |-> q]

\* retrieve(query) dispatches on the concrete class
RetrieveEntry == IF backend = "Indri" THEN "L86" ELSE "L148"

\* line 46, a variant that asks query generation again after a failure
GetQueryRetrying ==
  /\ pc = "L46"
  /\ \/ \E q \in Queries :
          /\ query' = q
          /\ events' = Append(events, Event("get_query", q))
          /\ pc' = "L47"
     \/ /\ Len(events) < 2
        /\ events' = Append(events, Event("get_query", ""))
        /\ pc' = "L46"
        /\ UNCHANGED query
  /\ UNCHANGED <<config, logger, calls, entry, conv_list, locals, effects, rv, out>>

\* line 46: query = self.query_generation.get_query(conv_list)
GetQuery ==
  /\ pc = "L46"
  /\ \/ \E q \in Queries :
          /\ query' = q
          /\ events' = Append(events, Event("get_query", q))
          /\ pc' = "L47"
          /\ out' = out
     \/ /\ events' = Append(events, Event("get_query", ""))
        /\ out' = Raised("QueryGenerationError")
        /\ pc' = "done"
        /\ UNCHANGED query
  /\ UNCHANGED <<config, logger, calls, entry, conv_list, locals, effects, rv>>

\* line 47, a variant that does not log
LogInfoSkipped ==
  /\ pc = "L47"
  /\ pc' = "L48"
  /\ UNCHANGED <<config, logger, calls, entry, conv_list, query, events, locals,
                 effects, rv, out>>

\* line 47: self.params['logger'].info('New query: ' + query)
LogInfo ==
  /\ pc = "L47"
  /\ logger' = Append(logger, InfoMessage(query))
  /\ events' = Append(events, Event("info", query))
  /\ pc' = "L48"
  /\ UNCHANGED <<config, calls, entry, conv_list, query, locals, effects, rv, out>>

\* line 48, the call: self.retrieve(query)
CallRetrieveFromGetResults ==
  /\ pc = "L48"
  /\ events' = Append(events, Event("retrieve", query))
  /\ pc' = RetrieveEntry
  /\ UNCHANGED <<config, logger, calls, entry, conv_list, query, locals, effects,
                 rv, out>>

\* line 48, a variant that swallows a failure of retrieve into an empty list
ReturnSwallowing ==
  /\ pc = "exit"
  /\ entry = "get_results"
  /\ out' = IF rv.status = "raised" THEN Returned(<<>>) ELSE rv
  /\ pc' = "done"
  /\ UNCHANGED <<config, logger, calls, entry, conv_list, query, events, locals,
                 effects, rv>>

\* line 48, the return: get_results returns what retrieve returned, and a
\* failure of retrieve passes through (there is no try/except)
GetResultsReturn ==
  /\ pc = "exit"
  /\ entry = "get_results"
  /\ out' = rv
  /\ pc' = "done"
  /\ UNCHANGED <<config, logger, calls, entry, conv_list, query, events, locals,
                 effects, rv>>

\* a direct call of retrieve hands its outcome to the caller
RetrieveReturn ==
  /\ pc = "exit"
  /\ entry = "retrieve"
  /\ out' = rv
  /\ pc' = "done"
  /\ UNCHANGED <<config, logger, calls, entry, conv_list, query, events, locals,
                 effects, rv>>

\* ---------------------------------------------------------- Indri.retrieve
RankedPairs == DocIds \X Scores

\* line 86: int_results = self.index.query(query, results_requested=...)
\* the engine answers with at most results_requested ranked pairs, or fails
IndexQuery ==
  /\ pc = "L86"
  /\ nquery' = nquery + 1
  /\ \/ /\ \E r \in SeqUpTo(RankedPairs, Min(results_requested, MaxRanked)) :
             int_results' = r
        /\ results' = <<>>
        /\ i' = 0
        /\ pc' = "L88"
        /\ rv' = rv
     \/ /\ rv' = Raised("EngineError")
        /\ pc' = "exit"
        /\ UNCHANGED <<int_results, results, i>>
  /\ UNCHANGED <<config, logger, calls, entry, conv_list, query, events,
                 search_results, content, doc, response, http, dump, log_mark, out>>

\* line 88: for int_doc_id, score in int_results  /  line 95: return results
IndriLoop ==
  /\ pc = "L88"
  /\ IF i < Len(int_results)
       THEN /\ pc' = "L108"
            /\ rv' = rv
       ELSE /\ rv' = Returned(results)
            /\ pc' = "exit"
  /\ UNCHANGED <<config, logger, calls, entry, conv_list, query, events, locals,
                 effects, out>>

\* lines 108-109, a variant that validates text_format before running the process
DumpIndexAfterFormatCheck ==
  /\ pc = "L108"
  /\ IF text_format = "trectext"
       THEN /\ dump' = Append(dump, int_results[i + 1][1])
            /\ \E c \in Contents : content' = c
            /\ pc' = "L110"
            /\ rv' = rv
       ELSE /\ rv' = Raised("UnsupportedFormat")
            /\ pc' = "exit"
            /\ UNCHANGED <<dump, content>>
  /\ UNCHANGED <<config, logger, calls, entry, conv_list, query, events,
                 int_results, search_results, results, i, doc, response, http,
                 nquery, log_mark, out>>

\* lines 108-109: content = subprocess.run([.../dumpindex, index, 'dt', str(doc_id)])
\* the process is started for the id of the current pair; starting it can fail
DumpIndex ==
  /\ pc = "L108"
  /\ dump' = Append(dump, int_results[i + 1][1])
  /\ \/ /\ \E c \in Contents : content' = c
        /\ pc' = "L110"
        /\ rv' = rv
     \/ /\ rv' = Raised("OSError")
        /\ pc' = "exit"
        /\ UNCHANGED content
  /\ UNCHANGED <<config, logger, calls, entry, conv_list, query, events,
                 int_results, search_results, results, i, doc, response, http,
                 nquery, log_mark, out>>

\* lines 110-114: parse by text_format, or raise
\* Exception('The requested text format is not supported!')
ParseByFormat ==
  /\ pc = "L110"
  /\ IF text_format = "trectext"
       THEN /\ doc' = get_trec_doc(content)
            /\ pc' = "L92"
            /\ rv' = rv
       ELSE /\ rv' = Raised("UnsupportedFormat")
            /\ pc' = "exit"
            /\ UNCHANGED doc
  /\ UNCHANGED <<config, logger, calls, entry, conv_list, query, events,
                 int_results, search_results, results, i, content, response,
                 effects, out>>

\* lines 92-93, a variant that keeps the identifier parsed from the content
AssignedKeepingId(d, pair) == [d EXCEPT !.score = pair[2]]

\* lines 92-93: doc.score = score; doc.id = str(int_doc_id)
Assigned(d, pair) == [d EXCEPT !.score = pair[2], !.id = str(pair[1])]

\* lines 92-94: assign score and id, results.append(doc)
AppendDoc ==
  /\ pc = "L92"
  /\ doc' = Assigned(doc, int_results[i + 1])
  /\ results' = Append(results, doc')
  /\ i' = i + 1
  /\ pc' = "L88"
  /\ UNCHANGED <<config, logger, calls, entry, conv_list, query, events,
                 int_results, search_results, content, response, effects, rv, out>>

\* -------------------------------------------------- BingWebSearch.retrieve
bing_api_url == "https://api.cognitive.microsoft.com/bing/v7.0/search"

Request(kind, rank, url) ==
  [kind |-> kind, rank |-> rank, url |-> url, status |-> "outstanding"]

\* JSON bodies: with webPages.value[], or without the webPages key
Jsons == {NoJson} \cup {[hasWebPages |-> TRUE, value |-> h] : h \in SeqUpTo(Hits, MaxHits)}

Completed(h, st) == [h EXCEPT ![Len(h)].status = st]

Outstanding == {k \in 1..Len(http) : http[k].status = "outstanding"}

\* line 148, the request: requests.get(self.bing_api_url, headers, params)
SearchSend ==
  /\ pc = "L148"
  /\ http' = Append(http, Request("search", -1, bing_api_url))
  /\ pc' = "L148w"
  /\ UNCHANGED <<config, logger, calls, entry, conv_list, query, events, locals,
                 dump, nquery, log_mark, rv, out>>

\* line 148, the blocking wait: a response with some status, or no connection
SearchRecv ==
  /\ pc = "L148w"
  /\ \/ /\ \E st \in {"ok", "http_error"}, j \in Jsons :
             /\ response' = [status |-> st, json |-> j]
             /\ http' = Completed(http, st)
        /\ pc' = "L149"
        /\ rv' = rv
     \/ /\ http' = Completed(http, "conn_error")
        /\ rv' = Raised("ConnectionError")
        /\ pc' = "exit"
        /\ UNCHANGED response
  /\ UNCHANGED <<config, logger, calls, entry, conv_list, query, events,
                 int_results, search_results, results, i, content, doc, dump,
                 nquery, log_mark, out>>

\* lines 149-151 without the status check
ParseWithoutStatusCheck ==
  /\ pc = "L149"
  /\ search_results' = response.json
  /\ results' = <<>>
  /\ i' = 0
  /\ pc' = "L152"
  /\ UNCHANGED <<config, logger, calls, entry, conv_list, query, events,
                 int_results, content, doc, response, effects, rv, out>>

\* lines 149-151: response.raise_for_status(); search_results = response.json();
\* results = []
RaiseForStatus ==
  /\ pc = "L149"
  /\ IF response.status = "ok"
       THEN /\ search_results' = response.json
            /\ results' = <<>>
            /\ i' = 0
            /\ pc' = "L152"
            /\ rv' = rv
       ELSE /\ rv' = Raised("HTTPError")
            /\ pc' = "exit"
            /\ UNCHANGED <<search_results, results, i>>
  /\ UNCHANGED <<config, logger, calls, entry, conv_list, query, events,
                 int_results, content, doc, response, effects, out>>

\* line 152 with the bound taken from the response alone
NumResultsUncapped == Len(search_results.value)

\* line 152 with the bound taken from the configuration alone
NumResultsRequested == results_requested

\* line 152: min(len(search_results['webPages']['value']), self.results_requested)
NumResults == Min(Len(search_results.value), results_requested)

\* line 152: for i in range(...)  /  line 161: return results
\* indexing a body that has no webPages key raises KeyError
BingLoop ==
  /\ pc = "L152"
  /\ IF ~search_results.hasWebPages
       THEN /\ rv' = Raised("KeyError")
            /\ pc' = "exit"
       ELSE IF i < NumResults
         THEN /\ pc' = "L158"
              /\ rv' = rv
         ELSE /\ rv' = Returned(results)
              /\ pc' = "exit"
  /\ UNCHANGED <<config, logger, calls, entry, conv_list, query, events, locals,
                 effects, out>>

\* lines 153-158 issuing the fetch without waiting for it
PageSendAsync ==
  /\ pc = "L158"
  /\ http' = Append(http, Request("page", i, search_results.value[i + 1].url))
  /\ i' = i + 1
  /\ pc' = "L152"
  /\ UNCHANGED <<config, logger, calls, entry, conv_list, query, events,
                 int_results, search_results, results, content, doc, response,
                 dump, nquery, log_mark, rv, out>>

\* lines 153-158, the request: id = ...['url']; requests.get(id, headers=headers)
PageSend ==
  /\ pc = "L158"
  /\ http' = Append(http, Request("page", i, search_results.value[i + 1].url))
  /\ pc' = "L158w"
  /\ UNCHANGED <<config, logger, calls, entry, conv_list, query, events, locals,
                 dump, nquery, log_mark, rv, out>>

\* line 159 with the configured count as the base
SyntheticScoreFromRequested(rank) == results_requested - rank

\* line 159: score = 10 - i
SyntheticScore(rank) == ScoreBase - rank

\* lines 153-160 for the hit at zero-based position rank and the fetched body
HitDocument(rank, body) ==
  LET hit == search_results.value[rank + 1]
  IN  Document(hit.url, hit.name, html_to_clean_text(body), SyntheticScore(rank))

\* lines 158-160, a variant that skips a page it cannot connect to
PageRecvSkipping ==
  /\ pc = "L158w"
  /\ \/ /\ \E r \in PageResponses :
             /\ http' = Completed(http, r.status)
             /\ results' = Append(results, HitDocument(i, r.body))
     \/ /\ http' = Completed(http, "conn_error")
        /\ UNCHANGED results
  /\ i' = i + 1
  /\ pc' = "L152"
  /\ UNCHANGED <<config, logger, calls, entry, conv_list, query, events,
                 int_results, search_results, content, doc, response, dump,
                 nquery, log_mark, rv, out>>

\* lines 158-160, a variant that fetches the page again after a failed connection
PageRecvRetrying ==
  /\ pc = "L158w"
  /\ \/ /\ \E r \in PageResponses :
             /\ http' = Completed(http, r.status)
             /\ results' = Append(results, HitDocument(i, r.body))
        /\ i' = i + 1
        /\ pc' = "L152"
        /\ rv' = rv
     \/ /\ http' = Completed(http, "conn_error")
        /\ IF Len(http) <= MaxHits + 1
             THEN pc' = "L158" /\ rv' = rv
             ELSE pc' = "exit" /\ rv' = Raised("ConnectionError")
        /\ UNCHANGED <<results, i>>
  /\ UNCHANGED <<config, logger, calls, entry, conv_list, query, events,
                 int_results, search_results, content, doc, response, dump,
                 nquery, log_mark, out>>

\* lines 158-160, the blocking wait and the append: the body of whatever
\* response arrives is cleaned (its status is not looked at); no connection
\* raises out of retrieve
PageRecv ==
  /\ pc = "L158w"
  /\ \/ /\ \E r \in PageResponses :
             /\ http' = Completed(http, r.status)
             /\ results' = Append(results, HitDocument(i, r.body))
        /\ i' = i + 1
        /\ pc' = "L152"
        /\ rv' = rv
     \/ /\ http' = Completed(http, "conn_error")
        /\ rv' = Raised("ConnectionError")
        /\ pc' = "exit"
        /\ UNCHANGED <<results, i>>
  /\ UNCHANGED <<config, logger, calls, entry, conv_list, query, events,
                 int_results, search_results, content, doc, response, dump,
                 nquery, log_mark, out>>

\* ------------------------------------------------------------ specification
Next ==
  \/ CallGetResults
  \/ CallRetrieve
  \/ GetQuery
  \/ LogInfo
  \/ CallRetrieveFromGetResults
  \/ GetResultsReturn
  \/ RetrieveReturn
  \/ IndexQuery
  \/ IndriLoop
  \/ DumpIndex
  \/ ParseByFormat
  \/ AppendDoc
  \/ SearchSend
  \/ SearchRecv
  \/ RaiseForStatus
  \/ BingLoop
  \/ PageSend
  \/ PageRecv

Spec == Init /\ [][Next]_vars

TypeOK ==
  /\ backend \in Backends
  /\ pc \in {"idle", "done", "exit", "L46", "L47", "L48", "L86", "L88", "L108",
            "L110", "L92", "L148", "L148w", "L149", "L152", "L158", "L158w"}
  /\ calls \in 0..MaxCalls
  /\ i \in 0..(MaxHits + MaxRanked + MaxRequested)
  /\ out.status \in {"running", "returned", "raised"}
  /\ rv.status \in {"running", "returned", "raised"}

\* ===================================================================
\* Properties
\* ===================================================================
IsGetResults == entry = "get_results"
IsBing == backend = "BingWebSearch"
IsIndri == backend = "Indri"
Finished == pc \in {"exit", "done"}
InvocationLog == SubSeq(logger, log_mark + 1, Len(logger))
RetrieveStarted == http # <<>> \/ nquery > 0 \/ rv.status # "running"
TemplateOrder == <<"get_query", "info", "retrieve">>

\* C1: in every invocation of get_results the calls made are, in this order
\* and each at most once, get_query, logger.info and retrieve; the message
\* logged and the query passed to retrieve are the query get_query produced;
\* retrieve never starts before the three have happened; and an invocation
\* that returns made each call exactly once and returns retrieve's value.
C1_GetResultsSequence ==
  IsGetResults =>
    /\ Len(events) <= 3
    /\ \A k \in 1..Len(events) :
         events[k].op = TemplateOrder[k] /\ events[k].q = events[1].q
    /\ InvocationLog = (IF Len(events) >= 2 THEN <<InfoMessage(events[1].q)>> ELSE <<>>)
    /\ RetrieveStarted => Len(events) = 3
    /\ (pc = "done" /\ out.status = "returned") =>
         /\ Len(events) = 3
         /\ rv.status = "returned"
         /\ out.value = rv.value

C1_Witness ==
  /\ IsGetResults
  /\ pc = "done"
  /\ out.status = "returned"
  /\ Len(out.value) >= 1
  /\ calls = 2
  /\ Len(logger) > Len(InvocationLog)

\* C2 as stated: the document at zero-based position i of a successful web
\* retrieve has score results_requested - i.
C2_ScoreFromRequested ==
  (IsBing /\ rv.status = "returned") =>
    \A k \in 1..Len(rv.value) : rv.value[k].score = results_requested - (k - 1)

\* C2 amended: the document at zero-based position i of a successful web
\* retrieve has score 10 - i, whatever results_requested is.
C2_ScoreFromTen ==
  (IsBing /\ rv.status = "returned") =>
    \A k \in 1..Len(rv.value) : rv.value[k].score = 10 - (k - 1)

C2_Witness ==
  /\ IsBing
  /\ rv.status = "returned"
  /\ results_requested = 3
  /\ Len(search_results.value) = 5
  /\ Len(rv.value) = 3
  /\ rv.value[3].score = 8

\* C3 as stated: with an unsupported text_format, every retrieve for which the
\* engine returned a ranked list (the empty one included) fails with the
\* unsupported-format error, and the dump process is never invoked.
C3_AlwaysFailsWithoutProcess ==
  (IsIndri /\ text_format # "trectext" /\ nquery > 0 /\ Finished
     /\ rv.error # "EngineError") =>
    /\ rv.status = "raised"
    /\ rv.error = "UnsupportedFormat"
    /\ dump = <<>>

\* C3 amended: with an unsupported text_format, a retrieve whose engine
\* returned the empty list returns the empty list without error and without
\* invoking the dump process; a retrieve whose engine returned at least one
\* pair invokes the dump process exactly once, for the first ranked id, and
\* then fails (with the unsupported-format error when the process could be
\* run); no document list other than the empty one is ever returned.
C3_UnsupportedFormat ==
  (IsIndri /\ text_format # "trectext") =>
    /\ Len(dump) <= 1
    /\ results = <<>>
    /\ rv.status = "returned" => (int_results = <<>> /\ dump = <<>> /\ rv.value = <<>>)
    /\ (Finished /\ nquery > 0 /\ int_results = <<>> /\ rv.error # "EngineError") =>
         rv.status = "returned"
    /\ (Finished /\ int_results # <<>>) =>
         /\ rv.status = "raised"
         /\ rv.error \in {"UnsupportedFormat", "OSError"}
         /\ dump = <<int_results[1][1]>>
    /\ rv.error = "UnsupportedFormat" => dump = <<int_results[1][1]>>

C3_Witness ==
  /\ IsIndri
  /\ text_format # "trectext"
  /\ pc = "done"
  /\ Len(int_results) = 2
  /\ out.error = "UnsupportedFormat"
  /\ Len(dump) = 1

PageFailed(k) == http[k].kind = "page" /\ http[k].status \in {"http_error", "conn_error"}

\* C4 as stated: a page fetch that ends in a connection failure or in a
\* non-success status is the last request of the call, and the call does not
\* return a document list.
C4_AnyPageFailureAborts ==
  IsBing =>
    \A k \in 1..Len(http) :
      PageFailed(k) => (k = Len(http) /\ rv.status # "returned" /\ pc # "L158")

\* C4 amended: a connection failure while fetching a page body makes the whole
\* retrieve fail, with no document list returned and no fetch for a later
\* rank; a non-success status on a page response does not: the body of that
\* response becomes the text of that rank's document.
C4_PageConnectionFailureAborts ==
  IsBing =>
    \A k \in 1..Len(http) :
      /\ (http[k].kind = "page" /\ http[k].status = "conn_error") =>
           /\ k = Len(http)
           /\ Finished
           /\ rv = Raised("ConnectionError")
           /\ (pc = "done" => out = Raised("ConnectionError"))
      /\ (http[k].kind = "page" /\ http[k].status = "http_error") =>
           /\ Len(results) > http[k].rank
           /\ results[http[k].rank + 1].id = http[k].url

C4_Witness ==
  /\ IsBing
  /\ pc = "done"
  /\ Len(http) = 3
  /\ http[2].status = "ok"
  /\ http[3].status = "conn_error"
  /\ Len(results) = 1
  /\ results_requested = 3
  /\ Len(search_results.value) = 3
  /\ out.status = "raised"

\* C5: when the search call comes back with a non-success status, retrieve
\* fails with the HTTP error, the search request is the only outbound request
\* of the call, and no document is assembled.
C5_SearchStatusFailure ==
  (IsBing /\ http # <<>> /\ http[1].status = "http_error") =>
    /\ Len(http) = 1
    /\ results = <<>>
    /\ pc \in {"L149", "exit", "done"}
    /\ Finished => rv = Raised("HTTPError")
    /\ pc = "done" => out = Raised("HTTPError")

C5_Witness ==
  /\ IsBing
  /\ pc = "done"
  /\ http # <<>>
  /\ http[1].status = "http_error"
  /\ Len(response.json.value) >= 2
  /\ results_requested >= 2
  /\ out.status = "raised"

\* C6: a successful web retrieve returns min(returned_count, results_requested)
\* documents, the i-th carrying the url and the name of the i-th hit, and the
\* default of results_requested is 1.
C6_CountAndOrder ==
  (IsBing /\ rv.status = "returned") =>
    LET hits == search_results.value
        n == IF Len(hits) < results_requested THEN Len(hits) ELSE results_requested
    IN  /\ Len(rv.value) = n
        /\ Len(rv.value) <= results_requested
        /\ params_results_requested = {} => Len(rv.value) <= 1
        /\ \A k \in 1..Len(rv.value) :
             rv.value[k].id = hits[k].url /\ rv.value[k].title = hits[k].name

C6_Witness ==
  /\ IsBing
  /\ rv.status = "returned"
  /\ results_requested = 2
  /\ Len(search_results.value) = 3
  /\ Len(rv.value) = 2
  /\ rv.value[1].id # rv.value[2].id

\* C7 as stated: a successful web retrieve makes 1 + results_requested
\* outbound requests, however many hits the API returned.
C7_RequestsFromRequested ==
  (IsBing /\ rv.status = "returned") => Len(http) = 1 + results_requested

\* C7 amended: a successful web retrieve makes 1 + min(returned_count,
\* results_requested) outbound requests: the search call first, then one page
\* fetch per returned document, in rank order.
C7_RequestsFromReturned ==
  (IsBing /\ rv.status = "returned") =>
    LET hits == search_results.value
        n == IF Len(hits) < results_requested THEN Len(hits) ELSE results_requested
    IN  /\ Len(http) = 1 + n
        /\ Len(http) = 1 + Len(rv.value)
        /\ http[1].kind = "search"
        /\ \A k \in 2..Len(http) :
             /\ http[k].kind = "page"
             /\ http[k].rank = k - 2
             /\ http[k].url = hits[k - 1].url

C7_Witness ==
  /\ IsBing
  /\ rv.status = "returned"
  /\ results_requested = 3
  /\ Len(search_results.value) = 1
  /\ Len(http) = 2

\* C8: when query generation fails, get_results fails with that failure after
\* a single get_query call, having logged nothing and not having started
\* retrieve; when retrieve fails, get_results fails with the same failure and
\* hands no document list to the caller.
C8_FailurePropagation ==
  IsGetResults =>
    /\ Cardinality({k \in 1..Len(events) : events[k].op = "get_query"}) <= 1
    /\ (events # <<>> /\ events[1].q = "") =>
         /\ pc = "done"
         /\ out = Raised("QueryGenerationError")
         /\ Len(events) = 1
         /\ InvocationLog = <<>>
         /\ ~RetrieveStarted
    /\ (pc = "done" /\ rv.status = "raised") =>
         /\ out.status = "raised"
         /\ out.error = rv.error
         /\ out.value = <<>>

C8_Witness ==
  /\ IsGetResults
  /\ pc = "done"
  /\ out = Raised("QueryGenerationError")
  /\ calls = 2
  /\ InvocationLog = <<>>
  /\ logger # <<>>
  /\ logger[Len(logger)].level = "info"

\* C9: with text_format 'trectext', a successful index retrieve has made one
\* index query and one dump invocation per ranked pair, in ranked order, and
\* returns one document per pair, the j-th with the decimal string of id_j as
\* id and s_j as score.
C9_IndexRetrieve ==
  (IsIndri /\ text_format = "trectext") =>
    /\ dump # <<>> => nquery = 1
    /\ rv.status = "returned" =>
         /\ nquery = 1
         /\ Len(dump) = Len(int_results)
         /\ Len(rv.value) = Len(int_results)
         /\ \A j \in 1..Len(int_results) :
              /\ dump[j] = int_results[j][1]
              /\ rv.value[j].id = str(int_results[j][1])
              /\ rv.value[j].score = int_results[j][2]

C9_Witness ==
  /\ IsIndri
  /\ text_format = "trectext"
  /\ rv.status = "returned"
  /\ int_results = <<<<12, -5>>, <<3, -2>>>>
  /\ rv.value[1].id = <<"1", "2">>
  /\ rv.value[2].id = <<"3">>
  /\ dump = <<12, 3>>

\* C10: within one web retrieve at most one request is outstanding, a page
\* fetch exists only after the search request has completed successfully, and
\* the fetch for rank r is issued only when the documents of ranks 0..r-1 are
\* in the result list and their fetches have completed.
C10_Sequential ==
  IsBing =>
    /\ Cardinality(Outstanding) <= 1
    /\ \A k \in 1..Len(http) :
         /\ http[k].status = "outstanding" => k = Len(http)
         /\ http[k].kind = "page" =>
              /\ k >= 2
              /\ http[1].kind = "search"
              /\ http[1].status = "ok"
              /\ http[k].rank = k - 2
              /\ Len(results) >= http[k].rank
              /\ http[k].status = "outstanding" => Len(results) = http[k].rank
              /\ \A m \in 2..(k - 1) : http[m].status \in {"ok", "http_error"}

C10_Witness ==
  /\ IsBing
  /\ pc = "L158w"
  /\ Len(http) = 3
  /\ http[3].status = "outstanding"
  /\ Len(results) = 1
====
